---- MODULE Spec2Model ----
(***************************************************************************)
(* Model of packages/apollo/src/config.ts: normalisation of a raw apollo   *)
(* config (loadConfig and its helpers), resolution of a schema's `extends` *)
(* chain (resolveSchema) and resolution of document sets                   *)
(* (resolveDocumentSets).                                                  *)
(*                                                                         *)
(* JavaScript strings are sequences of lexemes: "src/schema.graphql" is    *)
(* <<"src", "/", "schema", ".graphql">>.  The lexemes "/", "http", "*" and *)
(* "**" are the ones the code (or minimatch/glob) looks for, so substring  *)
(* search, replacement and splitting are computed on the sequence.         *)
(* undefined and null are the sentinels Undefined and Null.                *)
(***************************************************************************)
EXTENDS Naturals, Sequences, FiniteSets

\* ------------------------------------------------------------------ values

Undefined == <<"<undefined>">>
Null == <<"<null>">>

\* JavaScript truthiness of a string | undefined | null value.
Truthy(v) == v # Undefined /\ v # Null /\ v # <<>>

\* a || b on string | undefined | null values.
OrElse(a, b) == IF Truthy(a) THEN a ELSE b

\* Tagged JavaScript values of the raw (untyped) input: t is the type tag and
\* v the payload (a string's is the one-element list of it, an array's is its
\* list of strings).
JSUndefined == [v |-> <<>>, t |-> "undefined"]
JSString(s) == [v |-> <<s>>, t |-> "string"]
JSArray(a) == [v |-> a, t |-> "array"]
JSObject(o) == [v |-> o, t |-> "object"]
\* The method every string inherits: "abc".includes is a function.
StringPrototypeIncludes ==
  [v |-> << <<"String.prototype.includes">> >>, t |-> "function"]

StrOf(x) == x.v[1]

JSTruthy(x) ==
  CASE x.t = "undefined" -> FALSE
    [] x.t = "string" -> StrOf(x) # <<>>
    [] OTHER -> TRUE

\* Objects keep their keys in insertion order: a sequence of [key, val].
Keys(o) == [i \in 1..Len(o) |-> o[i].key]

HasKey(o, k) == \E i \in 1..Len(o) : o[i].key = k

\* A property name that is undefined or null is coerced to its printed form.
PropKey(k) ==
  IF k = Undefined THEN <<"undefined">> ELSE IF k = Null THEN <<"null">> ELSE k

\* o[k]: <<>> when the key is absent (undefined), <<value>> otherwise.
Lookup(o, k) ==
  LET hits == SelectSeq(o, LAMBDA e : e.key = PropKey(k))
  IN IF hits = <<>> THEN <<>> ELSE <<hits[1].val>>

\* o[k] = v: an existing key keeps its place, a new key is appended.
SetKey(o, k, v) ==
  IF HasKey(o, k)
  THEN [i \in 1..Len(o) |-> IF o[i].key = k THEN [key |-> k, val |-> v] ELSE o[i]]
  ELSE Append(o, [key |-> k, val |-> v])

\* ---------------------------------------------------------------- strings

RECURSIVE IndexOf(_, _, _)
\* The first index >= i of lexeme x in s, 0 when there is none.
IndexOf(s, x, i) ==
  IF i > Len(s) THEN 0 ELSE IF s[i] = x THEN i ELSE IndexOf(s, x, i + 1)

\* s.replace(a, b): the first occurrence only.
ReplaceFirst(s, a, b) ==
  LET i == IndexOf(s, a, 1)
  IN IF i = 0 THEN s ELSE [j \in 1..Len(s) |-> IF j = i THEN b ELSE s[j]]

RECURSIVE Split(_)
\* s.split("/"): the segments of a path or pattern, each a lexeme sequence.
Split(s) ==
  LET i == IndexOf(s, "/", 1)
  IN IF i = 0 THEN <<s>>
     ELSE <<SubSeq(s, 1, i - 1)>> \o Split(SubSeq(s, i + 1, Len(s)))

\* ------------------------------------------------------- loadEndpointConfig

NoSubscriptions(e) == ~Truthy(e.subscriptions)

DefaultLocalUrl == <<"http", ":", "/", "/", "localhost:4000", "/", "graphql">>

\* An endpoint is <<>> (undefined) or <<[url, subscriptions]>>.
loadEndpointConfig(obj, shouldDefaultURL) ==
  LET preSubscriptions ==
        IF obj.t = "string" THEN <<[subscriptions |-> Undefined, url |-> StrOf(obj)]>>
        ELSE IF obj.t = "object" THEN <<obj.v>>
        ELSE IF shouldDefaultURL
             THEN <<[subscriptions |-> Undefined, url |-> DefaultLocalUrl]>>
             ELSE <<>>
  IN IF preSubscriptions # <<>>
        /\ NoSubscriptions(preSubscriptions[1])
        /\ Truthy(preSubscriptions[1].url)
     THEN <<[preSubscriptions[1] EXCEPT
               !.subscriptions = ReplaceFirst(preSubscriptions[1].url, "http", "ws")]>>
     ELSE preSubscriptions

\* --------------------------------------------------------- loadSchemaConfig

\* The raw dependency {}: every field undefined.
EmptyDependency ==
  [schema |-> Undefined, endpoint |-> JSUndefined, engineKey |-> Undefined,
   extends |-> Undefined, clientSide |-> "undefined"]

\* process.env.ENGINE_API_KEY || obj.engineKey
EnvKeyFirst(envKey, objKey) == OrElse(envKey, objKey)

loadSchemaConfig(obj, defaultEndpoint, envKey) ==
  [schema |-> obj.schema,
   endpoint |-> loadEndpointConfig(obj.endpoint,
                                   ~Truthy(obj.engineKey) /\ defaultEndpoint),
   engineKey |-> EnvKeyFirst(envKey, obj.engineKey),
   extends |-> obj.extends,
   clientSide |-> obj.clientSide]

\* ---------------------------------------------------------- loadDocumentSet

\* obj.schema of a raw document set: a string has no such property.
RawSchema(obj) == IF obj.t = "object" THEN obj.v.schema ELSE Undefined

\* obj.includes: a string answers with its own method `includes`.
RawIncludes(obj) ==
  IF obj.t = "object" THEN obj.v.includes
  ELSE IF obj.t = "string" THEN StringPrototypeIncludes
  ELSE JSUndefined

RawExcludes(obj) == IF obj.t = "object" THEN obj.v.excludes ELSE JSUndefined

DefaultIncludes == JSArray(<< <<"**">> >>)
DefaultExcludes == JSArray(<< <<"node_modules", "/", "**">> >>)

\* typeof p === "string" ? [p] : p ? p : dflt
PatternList(p, dflt) ==
  IF p.t = "string" THEN JSArray(<<StrOf(p)>>) ELSE IF JSTruthy(p) THEN p ELSE dflt

loadDocumentSet(obj) ==
  [schema |-> RawSchema(obj),
   includes |-> PatternList(RawIncludes(obj), DefaultIncludes),
   excludes |-> PatternList(RawExcludes(obj), DefaultExcludes)]

\* --------------------------------------------------------------- filesystem

\* The project folder, which is also the process's working directory.
ProjectFolder == <<"/", "proj">>

ConfigFile == <<"/", "proj", "/", "apollo.config.js">>

\* The files and directories on disk, in the order glob lists them.
FSEntries ==
  << <<"/", "proj", "/", "client", ".graphql">>,
     <<"/", "proj", "/", "schema", ".graphql">>,
     <<"/", "proj", "/", "src">>,
     <<"/", "proj", "/", "src", "/", "query", ".graphql">>,
     <<"/", "proj", "/", "src", "/", "schema", ".graphql">> >>

IsAbsolute(p) == Len(p) > 0 /\ p[1] = "/"

\* path.resolve(p) from the working directory.
Resolve(p) == IF IsAbsolute(p) THEN p ELSE ProjectFolder \o <<"/">> \o p

\* path.relative(from, f) for an f below from.
Relative(from, f) == SubSeq(f, Len(from) + 2, Len(f))

\* path.basename(p)
Basename(p) == LET segs == Split(p) IN segs[Len(segs)]

existsSync(p) == \E i \in 1..Len(FSEntries) : FSEntries[i] = Resolve(p)

\* !!maybeUrl.match(/http/)
isUrl(maybeUrl) == IndexOf(maybeUrl, "http", 1) # 0

isFile(maybeFile) == ~isUrl(maybeFile) /\ existsSync(maybeFile)

\* ---------------------------------------------------- getSchemasFromServices

DefaultName == <<"default">>

\* Object.entries(obj.services) is destructured as [[serviceName, schemaRef]]:
\* an empty services object makes that throw a TypeError.
ServicesThrows(obj) == obj.services.t = "object" /\ obj.services.v = <<>>

\* The engine key of the services entry: process.env.ENGINE_API_KEY as it is.
ServiceEngineKey(envKey) == envKey

ServiceEntry(schemaRef, envKey) ==
  [schema |-> IF isFile(schemaRef) THEN schemaRef ELSE Null,
   endpoint |-> IF isUrl(schemaRef)
                THEN loadEndpointConfig(JSString(schemaRef), TRUE)
                ELSE <<>>,
   engineKey |-> ServiceEngineKey(envKey),
   extends |-> Undefined,
   clientSide |-> "false"]

\* Object.keys(schemas)[0], undefined for an empty object.
FirstKey(schemas) == IF Len(schemas) = 0 THEN Undefined ELSE Keys(schemas)[1]

\* The `default` entry of a clientSchema; it has no endpoint and no engineKey.
ClientEntry(clientSchema, schemas) ==
  [schema |-> clientSchema,
   endpoint |-> <<>>,
   engineKey |-> Undefined,
   extends |-> FirstKey(schemas),
   clientSide |-> "true"]

getSchemasFromServices(obj, defaultEndpoint, defaultSchema, envKey) ==
  LET s1 == IF JSTruthy(obj.services)
            THEN SetKey(<<>>, obj.services.v[1].key,
                        ServiceEntry(obj.services.v[1].val, envKey))
            ELSE <<>>
      s2 == IF Len(s1) = 0 /\ defaultSchema
            THEN SetKey(s1, DefaultName,
                        loadSchemaConfig(EmptyDependency, defaultEndpoint, envKey))
            ELSE s1
  IN IF Truthy(obj.clientSchema)
     THEN SetKey(s2, DefaultName, ClientEntry(obj.clientSchema, s2))
     ELSE s2

\* ---------------------------------------------------------------- loadConfig

\* The document set synthesized for a single schema: { schema: key }.
ImplicitSet(key) ==
  JSObject([schema |-> key, includes |-> JSUndefined, excludes |-> JSUndefined])

\* A loadConfig without the inference of the single schema's document set.
RawQueriesNoImplicit(queries, schemas) ==
  IF JSTruthy(queries)
  THEN IF queries.t = "array" THEN queries.v ELSE <<queries>>
  ELSE <<>>

\* obj.queries ? (Array.isArray(obj.queries) ? obj.queries : [obj.queries])
\*             : Object.keys(schemas).length == 1 ? [{schema: key}] : []
RawQueries(queries, schemas) ==
  IF JSTruthy(queries)
  THEN IF queries.t = "array" THEN queries.v ELSE <<queries>>
  ELSE IF Len(schemas) = 1 THEN <<ImplicitSet(Keys(schemas)[1])>> ELSE <<>>

loadConfig(obj, configFile, configDir, defaultEndpoint, defaultSchema, envKey) ==
  LET schemas == getSchemasFromServices(obj, defaultEndpoint, defaultSchema, envKey)
      raws == RawQueries(obj.queries, schemas)
  IN [schemas |-> schemas,
      queries |-> [i \in 1..Len(raws) |-> loadDocumentSet(raws[i])],
      configFile |-> configFile,
      projectFolder |-> configDir,
      name |-> Basename(configDir),
      engineEndpoint |-> obj.engineEndpoint]

\* ------------------------------------------------------- minimatch and glob

\* Lexemes whose first character is a dot.
DotLexemes == {".", "..", ".graphql"}

StartsWithDot(seg) == Len(seg) > 0 /\ seg[1] \in DotLexemes

IsStar(x) == x \in {"*", "**"}

HasMagic(seg) == \E i \in 1..Len(seg) : IsStar(seg[i])

RECURSIVE StarMatch(_, _)
\* A pattern segment with stars against a file segment: a star stands for any
\* run of lexemes.
StarMatch(f, p) ==
  IF p = <<>> THEN f = <<>>
  ELSE IF IsStar(p[1])
       THEN \E k \in 0..Len(f) : StarMatch(SubSeq(f, k + 1, Len(f)), Tail(p))
       ELSE f # <<>> /\ f[1] = p[1] /\ StarMatch(Tail(f), Tail(p))

\* One path segment against one pattern segment: a pattern without stars is
\* compared as a string, one with stars as minimatch's regular expression
\* (a non-empty segment, and no leading dot under a leading star).
SegMatch(f, p) ==
  IF HasMagic(p)
  THEN f # <<>> /\ ~(IsStar(p[1]) /\ StartsWithDot(f)) /\ StarMatch(f, p)
  ELSE f = p

IsGlobStar(p) == p = <<"**">>

RECURSIVE matchOne(_, _)
\* minimatch's matchOne on the segment lists of the path and of the pattern.
matchOne(file, pattern) ==
  IF file = <<>> \/ pattern = <<>>
  THEN IF file = <<>> /\ pattern = <<>> THEN TRUE
       ELSE IF file = <<>> THEN FALSE
       ELSE Len(file) = 1 /\ file[1] = <<>>
  ELSE IF IsGlobStar(pattern[1])
       THEN IF Len(pattern) = 1
            THEN \A i \in 1..Len(file) : ~StartsWithDot(file[i])
            ELSE \E fr \in 1..Len(file) :
                   /\ \A j \in 1..(fr - 1) : ~StartsWithDot(file[j])
                   /\ matchOne(SubSeq(file, fr, Len(file)), Tail(pattern))
       ELSE SegMatch(file[1], pattern[1]) /\ matchOne(Tail(file), Tail(pattern))

\* minimatch(path, pattern) with no options.
minimatch(path, pattern) ==
  IF pattern = <<>> THEN path = <<>>
  ELSE matchOne(Split(path), Split(pattern))

\* fg.sync(pattern, {cwd, absolute: true}) for a pattern relative to cwd: the
\* entries below cwd whose relative path matches, each once, in glob's order.
GlobSync(pattern, cwd) ==
  SelectSeq(FSEntries, LAMBDA e : minimatch(Relative(cwd, e), pattern))

\* ------------------------------------------------------------ collaborators

\* loadQueryDocuments([path])[0]: the parsed document of a file.
loadQueryDocuments(path) == [file |-> path, client |-> FALSE]

\* visit(ast, ...) setting __client on every field definition.
MarkClient(ast) == [ast EXCEPT !.client = TRUE]

\* A schema object is <<>> (undefined) or <<[built, source, client, tag, exts]>>.
NoSchema == <<>>

buildASTSchema(ast) ==
  <<[client |-> ast.client, built |-> "buildASTSchema", source |-> ast.file,
     tag |-> Undefined, exts |-> <<>>]>>

\* An introspection result names the dependency it was fetched for and the tag.
buildClientSchema(introspection) ==
  <<[client |-> FALSE, built |-> "buildClientSchema", source |-> introspection.of,
     tag |-> introspection.tag, exts |-> <<>>]>>

\* extendSchema(schema, ast) of a schema object (it throws on undefined).
extendSchema(schema, ast) == <<[schema[1] EXCEPT !.exts = Append(@, ast)]>>

\* ------------------------------------------------------------ resolveSchema

\* A resolveSchema that passes no tag on at all.
PassTagNever(tag) == Undefined

\* ...(tag && { tag }): a falsy tag is not passed on.
PassTag(tag) == IF Truthy(tag) THEN tag ELSE Undefined

\* The closure loadAsAST of a dependency.
loadAsAST(referredSchema) ==
  IF referredSchema.clientSide = "true"
  THEN MarkClient(loadQueryDocuments(referredSchema.schema))
  ELSE loadQueryDocuments(referredSchema.schema)

Call(fn, of, tag) == [tag |-> tag, of |-> of, fn |-> fn]

\* --------------------------------------------------------- resolveDocumentSets

\* A resolveDocumentSets that resolves the schema whether needed or not.
NeedsResolveAlways(needSchema, doc) == Truthy(doc.schema)

\* needSchema && doc.schema
NeedsResolve(needSchema, doc) == needSchema /\ Truthy(doc.schema)

\* doc.schema ? config.schemas[doc.schema] : undefined
ReferredSchema(config, doc) ==
  IF Truthy(doc.schema) THEN Lookup(config.schemas, doc.schema) ELSE <<>>

RECURSIVE FlatMapGlob(_, _)
\* doc.includes.flatMap(i => fg.sync(i, {cwd, absolute: true}))
FlatMapGlob(includes, cwd) ==
  IF includes = <<>> THEN <<>>
  ELSE GlobSync(Head(includes), cwd) \o FlatMapGlob(Tail(includes), cwd)

\* ![...doc.excludes, ...schemaPaths].some(e => minimatch(relative(folder, f), e))
Kept(f, excludes, paths, folder) ==
  LET pats == excludes \o paths
  IN ~\E i \in 1..Len(pats) : minimatch(Relative(folder, f), pats[i])

DocumentPaths(doc, paths, folder) ==
  SelectSeq(FlatMapGlob(doc.includes.v, folder),
            LAMBDA f : Kept(f, doc.excludes.v, paths, folder))

ResolvedSet(config, doc, schema, paths) ==
  LET referredSchema == ReferredSchema(config, doc)
  IN [schema |-> schema,
      endpoint |-> IF referredSchema # <<>> THEN referredSchema[1].endpoint ELSE <<>>,
      engineKey |-> IF referredSchema # <<>> THEN referredSchema[1].engineKey
                    ELSE Undefined,
      documentPaths |-> DocumentPaths(doc, paths, config.projectFolder),
      originalSet |-> doc]

\* ------------------------------------------------------------------- inputs

\* The call-stack depth at which the engine throws RangeError.
MaxStack == 4

\* The walk of a cyclic `extends` chain appends to schemaPaths without end; the
\* model follows it up to this many entries.
MaxPaths == 4

PatAll == <<"**">>
PatSrc == <<"src", "/", "*", ".graphql">>
PatAllGraphql == <<"**", "/", "*", ".graphql">>

RemoteUrl == <<"http", "s:", "/", "/", "api.example.com", "/", "graphql">>
SchemaFile == <<"schema", ".graphql">>
SchemaFileAbsolute == <<"/", "proj", "/", "schema", ".graphql">>
SrcSchemaFile == <<"src", "/", "schema", ".graphql">>
ClientFile == <<"client", ".graphql">>

ApiName == <<"api">>
MissingName == <<"missing">>

Service(name, ref) == JSObject(<<[key |-> name, val |-> ref]>>)

ServicesChoices ==
  << JSUndefined,
     JSObject(<<>>),
     Service(ApiName, RemoteUrl),
     Service(ApiName, SchemaFile),
     Service(ApiName, SchemaFileAbsolute),
     Service(DefaultName, RemoteUrl),
     JSObject(<<[key |-> ApiName, val |-> <<"nowhere", ".graphql">>],
                [key |-> <<"other">>, val |-> RemoteUrl]>>) >>

ClientSchemaChoices == {Undefined, ClientFile}

RawDoc(schema, includes, excludes) ==
  JSObject([schema |-> schema, includes |-> includes, excludes |-> excludes])

QueriesChoices ==
  << JSUndefined,
     JSString(<<>>),
     JSString(PatSrc),
     JSArray(<<>>),
     RawDoc(DefaultName, JSUndefined, JSUndefined),
     JSArray(<<RawDoc(MissingName, JSString(PatAllGraphql), JSUndefined)>>),
     JSArray(<<RawDoc(ApiName, JSArray(<<PatAll, PatSrc>>), JSArray(<<>>)),
               RawDoc(Undefined, JSUndefined, JSString(SrcSchemaFile))>>) >>

EnvChoices == {Undefined, <<>>, <<"env-key">>}

Tags == {Undefined, <<>>, <<"prod">>}

\* Configs a caller builds by hand (an ApolloConfig literal).
Dep(schema, endpoint, engineKey, extends, clientSide) ==
  [schema |-> schema, endpoint |-> endpoint, engineKey |-> engineKey,
   extends |-> extends, clientSide |-> clientSide]

Doc(schema, includes, excludes) ==
  [schema |-> schema, includes |-> JSArray(includes), excludes |-> JSArray(excludes)]

Config(schemas, queries) ==
  [schemas |-> schemas, queries |-> queries, configFile |-> ConfigFile,
   projectFolder |-> ProjectFolder, name |-> Basename(ProjectFolder),
   engineEndpoint |-> Undefined]

RemoteEndpoint == loadEndpointConfig(JSString(RemoteUrl), FALSE)

LeafName == <<"leaf">>
AName == <<"A">>
BName == <<"B">>

\* leaf extends A, A extends B; B is terminal.
Chain(terminal) ==
  << [key |-> LeafName,
      val |-> Dep(ClientFile, <<>>, Undefined, AName, "true")],
     [key |-> AName,
      val |-> Dep(SrcSchemaFile, <<>>, Undefined, BName, "undefined")],
     [key |-> BName, val |-> terminal] >>

DirectConfigs ==
  << Config(Chain(Dep(Undefined, RemoteEndpoint, <<"cfg-key">>, Undefined, "false")),
            <<Doc(LeafName, <<PatAll, PatSrc>>, <<>>)>>),
     Config(Chain(Dep(SchemaFileAbsolute, <<>>, Undefined, Undefined, "true")),
            <<Doc(LeafName, <<PatAllGraphql>>, <<>>),
              Doc(BName, <<PatSrc>>, <<SrcSchemaFile>>)>>),
     Config(<< [key |-> AName,
                val |-> Dep(SchemaFile, <<>>, Undefined, BName, "true")],
               [key |-> BName,
                val |-> Dep(Undefined, RemoteEndpoint, Undefined, AName, "false")] >>,
            <<Doc(AName, <<PatAll>>, <<>>)>>),
     Config(<< [key |-> AName,
                val |-> Dep(Undefined, RemoteEndpoint, Undefined, Undefined, "false")],
               [key |-> BName,
                val |-> Dep(Undefined, RemoteEndpoint, Undefined, Undefined, "false")] >>,
            <<Doc(AName, <<PatSrc>>, <<>>), Doc(BName, <<PatSrc>>, <<>>)>>) >>

\* -------------------------------------------------------------------- state

VARIABLES
  env,              \* process.env.ENGINE_API_KEY
  pc,               \* where the program is
  obj,              \* loadConfig's raw input
  defaultEndpoint,  \* loadConfig's flag
  defaultSchema,    \* loadConfig's flag
  config,           \* the ApolloConfig in use
  origin,           \* who made config: "loadConfig" or "caller"
  op,               \* the exported call in progress and its arguments
  tasks,            \* one per document-set callback (one for a resolveSchema call)
  val,              \* the schema object the resolveSchema call returned
  calls,            \* the collaborators invoked so far, in order
  idx,              \* the callback whose synchronous code is running
  currentSchema,    \* currentSchema of the schemaPaths walk
  resolved,         \* the ResolvedDocumentSets resolveDocumentSets returned
  error             \* the error a call was rejected with

\* What a call of resolveSchema or resolveDocumentSets is given and leaves alone.
given == <<env, obj, defaultEndpoint, defaultSchema, config, origin>>

vars ==
  <<env, pc, obj, defaultEndpoint, defaultSchema, config, origin, op, tasks, val,
    calls, idx, currentSchema, resolved, error>>

EmptyObj ==
  [services |-> JSUndefined, clientSchema |-> Undefined, queries |-> JSUndefined,
   engineEndpoint |-> Undefined]

NoOp == [name |-> Undefined, tag |-> Undefined, fn |-> "none", needSchema |-> FALSE]

\* An async callback that has not started: `stack` holds resolveSchema's
\* activations (the innermost last), `waiting` what the innermost one awaits,
\* `val` the value the last finished activation returned.
NewTask ==
  [val |-> NoSchema, error |-> "none", state |-> "new", stack |-> <<>>,
   waiting |-> "none", schemaPaths |-> <<>>, result |-> <<>>]

Init ==
  /\ env \in EnvChoices
  /\ pc = "init"
  /\ obj = EmptyObj
  /\ defaultEndpoint = FALSE
  /\ defaultSchema = FALSE
  /\ config = Config(<<>>, <<>>)
  /\ origin = "none"
  /\ op = NoOp
  /\ tasks = <<>>
  /\ val = NoSchema
  /\ calls = <<>>
  /\ idx = 0
  /\ currentSchema = <<>>
  /\ resolved = <<>>
  /\ error = "none"

\* ------------------------------------------------------------------ actions

Reject(e) ==
  /\ pc' = "rejected"
  /\ error' = e

\* loadConfig(obj, configFile, configDir, defaultEndpoint, defaultSchema)
LoadConfig(o, dE, dS) ==
  /\ pc = "init"
  /\ obj' = o
  /\ defaultEndpoint' = dE
  /\ defaultSchema' = dS
  /\ IF ServicesThrows(o)
     THEN Reject("TypeError") /\ UNCHANGED <<config, origin>>
     ELSE /\ config' = loadConfig(o, ConfigFile, ProjectFolder, dE, dS, env)
          /\ origin' = "loadConfig"
          /\ pc' = "ready"
          /\ UNCHANGED error
  /\ UNCHANGED <<env, op, tasks, val, calls, idx, currentSchema, resolved>>

\* A caller passes a config of its own making.
SupplyConfig(c) ==
  /\ pc = "init"
  /\ config' = c
  /\ origin' = "caller"
  /\ pc' = "ready"
  /\ UNCHANGED <<env, obj, defaultEndpoint, defaultSchema, op, tasks, val, calls,
                 idx, currentSchema, resolved, error>>

Frame(name, tag) == [name |-> name, tag |-> tag]

\* resolveSchema({name, config, tag}) is called.
CallResolveSchema(name, tag) ==
  /\ pc = "ready"
  /\ op' = [name |-> name, tag |-> tag, fn |-> "resolveSchema", needSchema |-> FALSE]
  /\ tasks' = <<[NewTask EXCEPT !.state = "running", !.stack = <<Frame(name, tag)>>]>>
  /\ idx' = 1
  /\ pc' = "schemaCall"
  /\ UNCHANGED <<given, val, calls, currentSchema, resolved, error>>

\* A throw inside an async function rejects its promise; the rejection passes
\* through every activation awaiting it, none of which gets to call loadAsAST.
Failed(t, e) == [t EXCEPT !.state = "failed", !.waiting = "none", !.error = e]

\* The innermost activation returns v; whoever awaits it can resume.
Returned(t, v) ==
  [t EXCEPT !.state = "suspended", !.waiting = "child", !.val = v,
            !.stack = SubSeq(@, 1, Len(@) - 1)]

\* The synchronous code of callback idx has reached an await (or its end):
\* map calls the next callback, and after the last one the continuations of
\* the awaits get their turn.
Advance ==
  IF op.fn = "resolveDocumentSets" /\ idx < Len(config.queries)
  THEN idx' = idx + 1 /\ pc' = "docStart"
  ELSE pc' = "loop" /\ UNCHANGED idx

\* The body of resolveSchema up to its first await or its return: the lookup,
\* then the recursive call for `extends`, or the terminal schema.  The
\* recursive call is made before the await, so the activations nest on the
\* call stack, and a call beyond its depth throws RangeError.  A clientSide
\* terminal schema is built at once; for any other, loadSchema is invoked and
\* the activation awaits its promise.
ResolveSchemaBody ==
  /\ pc = "schemaCall"
  /\ LET t == tasks[idx]
         frame == t.stack[Len(t.stack)]
         found == Lookup(config.schemas, frame.name)
     IN IF found = <<>>
        THEN /\ tasks' = [tasks EXCEPT ![idx] = Failed(t, "TypeError")]
             /\ Advance
             /\ UNCHANGED calls
        ELSE LET referredSchema == found[1]
             IN IF Truthy(referredSchema.extends)
                THEN IF Len(t.stack) >= MaxStack
                     THEN /\ tasks' = [tasks EXCEPT ![idx] = Failed(t, "RangeError")]
                          /\ Advance
                          /\ UNCHANGED calls
                     ELSE /\ tasks' = [tasks EXCEPT ![idx].stack =
                                         Append(@, Frame(referredSchema.extends,
                                                         PassTag(frame.tag)))]
                          /\ UNCHANGED <<pc, idx, calls>>
                ELSE IF referredSchema.clientSide = "true"
                     THEN /\ calls' = calls \o
                               <<Call("loadQueryDocuments", frame.name, Undefined),
                                 Call("buildASTSchema", frame.name, Undefined)>>
                          /\ tasks' = [tasks EXCEPT ![idx] =
                               Returned(t, buildASTSchema(loadAsAST(referredSchema)))]
                          /\ Advance
                     ELSE /\ calls' = Append(calls,
                               Call("loadSchema", frame.name, PassTag(frame.tag)))
                          /\ tasks' = [tasks EXCEPT ![idx] =
                               [t EXCEPT !.state = "suspended",
                                         !.waiting = "loadSchema"]]
                          /\ Advance
  /\ UNCHANGED <<given, op, val, currentSchema, resolved, error>>

\* loadSchema's promise settles and the `then` callback runs: it returns
\* undefined without a result and buildClientSchema's schema with one.
\* `available` is whether loadSchema delivers an introspection result.  The
\* order in which pending fetches settle is the network's.  The activation
\* itself is still at its await: it resumes a turn later.
LoadSchemaSettles(i, available) ==
  /\ pc = "loop"
  /\ tasks[i].state = "suspended"
  /\ tasks[i].waiting = "loadSchema"
  /\ LET t == tasks[i]
         frame == t.stack[Len(t.stack)]
     IN IF available
        THEN /\ calls' = Append(calls, Call("buildClientSchema", frame.name, Undefined))
             /\ tasks' = [tasks EXCEPT ![i] =
                  [t EXCEPT !.waiting = "then",
                            !.val = buildClientSchema(
                              [tag |-> PassTag(frame.tag), of |-> frame.name])]]
        ELSE /\ calls' = calls
             /\ tasks' = [tasks EXCEPT ![i] =
                  [t EXCEPT !.waiting = "then", !.val = NoSchema]]
  /\ UNCHANGED <<given, pc, op, val, idx, currentSchema, resolved, error>>

\* The await of loadSchema(...).then(...) resumes with what the callback
\* returned, and the activation returns it.
ResolveSchemaReturns(i) ==
  /\ pc = "loop"
  /\ tasks[i].state = "suspended"
  /\ tasks[i].waiting = "then"
  /\ tasks' = [tasks EXCEPT ![i] = Returned(tasks[i], tasks[i].val)]
  /\ UNCHANGED <<given, pc, op, val, calls, idx, currentSchema, resolved, error>>

\* An activation resumes after its await: extendSchema(<awaited>, loadAsAST()).
\* Both arguments are evaluated and extendSchema is invoked whatever was
\* awaited; on undefined it throws.
ResolveSchemaExtend(i) ==
  /\ pc = "loop"
  /\ tasks[i].state = "suspended"
  /\ tasks[i].waiting = "child"
  /\ tasks[i].stack # <<>>
  /\ LET t == tasks[i]
         frame == t.stack[Len(t.stack)]
         referredSchema == Lookup(config.schemas, frame.name)[1]
     IN /\ calls' = calls \o
             <<Call("loadQueryDocuments", frame.name, Undefined),
               Call("extendSchema", frame.name, Undefined)>>
        /\ tasks' = [tasks EXCEPT ![i] =
             IF t.val = NoSchema
             THEN Failed(t, "InvalidSchema")
             ELSE Returned(t, extendSchema(t.val, loadAsAST(referredSchema)))]
  /\ UNCHANGED <<given, pc, op, val, idx, currentSchema, resolved, error>>

\* The promise of the resolveSchema call is fulfilled with the schema.
ResolveSchemaFulfils ==
  /\ pc = "loop"
  /\ op.fn = "resolveSchema"
  /\ tasks[1].state = "suspended"
  /\ tasks[1].waiting = "child"
  /\ tasks[1].stack = <<>>
  /\ val' = tasks[1].val
  /\ pc' = "done"
  /\ UNCHANGED <<given, op, tasks, calls, idx, currentSchema, resolved, error>>

RECURSIVE NewTasks(_)
\* One callback per element of config.queries.
NewTasks(n) == IF n = 0 THEN <<>> ELSE Append(NewTasks(n - 1), NewTask)

\* resolveDocumentSets(config, needSchema, tag) is called: map calls the
\* callback of every document set in turn, each running up to its first await.
CallResolveDocumentSets(needSchema, tag) ==
  /\ pc = "ready"
  /\ op' = [name |-> Undefined, tag |-> tag,
            fn |-> "resolveDocumentSets", needSchema |-> needSchema]
  /\ tasks' = NewTasks(Len(config.queries))
  /\ idx' = 1
  /\ pc' = IF Len(config.queries) = 0 THEN "done" ELSE "docStart"
  /\ UNCHANGED <<given, val, calls, currentSchema, resolved, error>>

\* The callback of document set idx starts: schemaPaths = [] and
\* currentSchema = config.schemas[doc.schema].
DocStart ==
  /\ pc = "docStart"
  /\ tasks' = [tasks EXCEPT ![idx].state = "running"]
  /\ currentSchema' = Lookup(config.schemas, config.queries[idx].schema)
  /\ pc' = "walk"
  /\ UNCHANGED <<given, op, val, calls, idx, resolved, error>>

\* One turn of the while loop over the `extends` chain.
WalkStep ==
  /\ pc = "walk"
  /\ currentSchema # <<>>
  /\ Len(tasks[idx].schemaPaths) < MaxPaths
  /\ tasks' = [tasks EXCEPT ![idx].schemaPaths =
                 IF Truthy(currentSchema[1].schema)
                 THEN Append(@, currentSchema[1].schema)
                 ELSE @]
  /\ currentSchema' = Lookup(config.schemas, currentSchema[1].extends)
  /\ UNCHANGED <<given, pc, op, val, calls, idx, resolved, error>>

\* The loop is over; the schema is resolved only when needSchema && doc.schema.
WalkEnd ==
  /\ pc = "walk"
  /\ currentSchema = <<>>
  /\ IF NeedsResolve(op.needSchema, config.queries[idx])
     THEN /\ tasks' = [tasks EXCEPT ![idx].stack =
                         <<Frame(config.queries[idx].schema, PassTag(op.tag))>>]
          /\ pc' = "schemaCall"
     ELSE /\ pc' = "docFinish"
          /\ UNCHANGED tasks
  /\ UNCHANGED <<given, op, val, calls, idx, currentSchema, resolved, error>>

\* The rest of the callback: endpoint, engineKey and documentPaths.  An
\* `includes` that is no array has no flatMap.
Finish(t, doc) ==
  IF doc.includes.t # "array"
  THEN Failed(t, "TypeError")
  ELSE [t EXCEPT !.state = "fulfilled", !.waiting = "none",
                 !.result = <<ResolvedSet(config, doc, t.val, t.schemaPaths)>>]

\* A callback that awaits nothing (schema: undefined) runs to its end at once.
DocFinish ==
  /\ pc = "docFinish"
  /\ tasks' = [tasks EXCEPT ![idx] = Finish(tasks[idx], config.queries[idx])]
  /\ Advance
  /\ UNCHANGED <<given, op, val, calls, currentSchema, resolved, error>>

\* A callback resumes after `await resolveSchema(...)` and runs to its end.
DocResume(i) ==
  /\ pc = "loop"
  /\ op.fn = "resolveDocumentSets"
  /\ tasks[i].state = "suspended"
  /\ tasks[i].waiting = "child"
  /\ tasks[i].stack = <<>>
  /\ tasks' = [tasks EXCEPT ![i] = Finish(tasks[i], config.queries[i])]
  /\ UNCHANGED <<given, pc, op, val, calls, idx, currentSchema, resolved, error>>

RECURSIVE Results(_)
\* The values of the callbacks' promises, in the order of the document sets.
Results(ts) == IF ts = <<>> THEN <<>> ELSE <<Head(ts).result[1]>> \o Results(Tail(ts))

\* Promise.all fulfils once every callback has: the results in the sets' order.
PromiseAllFulfils ==
  /\ pc = "loop"
  /\ op.fn = "resolveDocumentSets"
  /\ \A i \in 1..Len(tasks) : tasks[i].state = "fulfilled"
  /\ resolved' = Results(tasks)
  /\ pc' = "done"
  /\ UNCHANGED <<given, op, tasks, val, calls, idx, currentSchema, error>>

\* The call is rejected with the error of a callback that failed.  Callbacks
\* still pending may or may not have taken further steps by then.
Rejects(i) ==
  /\ pc = "loop"
  /\ tasks[i].state = "failed"
  /\ Reject(tasks[i].error)
  /\ UNCHANGED <<given, op, tasks, val, calls, idx, currentSchema, resolved>>

Next ==
  \/ \E s \in 1..Len(ServicesChoices), c \in ClientSchemaChoices,
        q \in 1..Len(QueriesChoices), dE \in BOOLEAN, dS \in BOOLEAN :
       LoadConfig([services |-> ServicesChoices[s], clientSchema |-> c,
                   queries |-> QueriesChoices[q], engineEndpoint |-> Undefined],
                  dE, dS)
  \/ \E i \in 1..Len(DirectConfigs) : SupplyConfig(DirectConfigs[i])
  \/ \E i \in 1..Len(config.schemas), tag \in Tags :
       CallResolveSchema(config.schemas[i].key, tag)
  \/ \E tag \in Tags : CallResolveSchema(MissingName, tag)
  \/ ResolveSchemaBody
  \/ \E i \in 1..Len(tasks), available \in BOOLEAN : LoadSchemaSettles(i, available)
  \/ \E i \in 1..Len(tasks) : ResolveSchemaReturns(i)
  \/ \E i \in 1..Len(tasks) : ResolveSchemaExtend(i)
  \/ ResolveSchemaFulfils
  \/ \E needSchema \in BOOLEAN, tag \in Tags : CallResolveDocumentSets(needSchema, tag)
  \/ DocStart
  \/ WalkStep
  \/ WalkEnd
  \/ DocFinish
  \/ \E i \in 1..Len(tasks) : DocResume(i)
  \/ PromiseAllFulfils
  \/ \E i \in 1..Len(tasks) : Rejects(i)

Spec == Init /\ [][Next]_vars

\* ------------------------------------------------------------------- claims

\* The name a dependency extends, Undefined when it (or its target) has none.
ExtendsOf(schemas, name) ==
  LET found == Lookup(schemas, name)
  IN IF found # <<>> /\ Truthy(found[1].extends) THEN found[1].extends ELSE Undefined

RECURSIVE Reaches(_, _, _, _)
\* Following `extends` from `from` for 1..fuel steps arrives at `to`.
Reaches(schemas, from, to, fuel) ==
  LET next == ExtendsOf(schemas, from)
  IN /\ fuel > 0
     /\ next # Undefined
     /\ HasKey(schemas, next)
     /\ (next = to \/ Reaches(schemas, next, to, fuel - 1))

OnCycle(schemas, name) ==
  HasKey(schemas, name) /\ Reaches(schemas, name, name, Len(schemas))

ResolvingSchema == op.fn = "resolveSchema"
ResolvingSets == op.fn = "resolveDocumentSets"
Finished == pc \in {"done", "rejected"}

\* resolveSchema's activations in the resolveSchema call, the innermost last.
Activations == IF Len(tasks) = 0 THEN <<>> ELSE tasks[1].stack

\* C1: resolveSchema called on a name that lies on an `extends` cycle does not
\* go round the cycle again (its activations are at most one per schema of the
\* config, and the one that meets a name already being resolved) and, when it
\* ends, it ends with CyclicExtension.
C1_CycleRaisesCyclicExtension ==
  (ResolvingSchema /\ OnCycle(config.schemas, op.name)) =>
    /\ Len(Activations) <= Len(config.schemas) + 1
    /\ (Finished => error = "CyclicExtension")

RECURSIVE ChainFiles(_, _, _)
\* The schema files (as absolute paths) of the dependencies on the `extends`
\* chain that starts at `name`.
ChainFiles(schemas, name, fuel) ==
  LET found == Lookup(schemas, name)
  IN IF fuel = 0 \/ ~Truthy(name) \/ found = <<>> THEN {}
     ELSE (IF Truthy(found[1].schema) THEN {Resolve(found[1].schema)} ELSE {})
          \cup ChainFiles(schemas, found[1].extends, fuel - 1)

\* C2: no path of a resolved set's documentPaths is the schema file of a
\* dependency on the `extends` chain of the set's schema.
C2_SchemaFilesNeverDocuments ==
  \A i \in 1..Len(resolved) :
    \A j \in 1..Len(resolved[i].documentPaths) :
      resolved[i].documentPaths[j] \notin
        ChainFiles(config.schemas, resolved[i].originalSet.schema,
                   Len(config.schemas))

\* C3: documentPaths of a resolved set holds each path at most once.
C3_DocumentPathsDistinct ==
  \A i \in 1..Len(resolved) :
    \A j, k \in 1..Len(resolved[i].documentPaths) :
      j # k => resolved[i].documentPaths[j] # resolved[i].documentPaths[k]

DanglingSet(doc) == Truthy(doc.schema) /\ ~HasKey(config.schemas, doc.schema)

\* C4: when a document set names a schema that config.schemas lacks,
\* resolveDocumentSets (needSchema true or false) does not return and produces
\* no ResolvedDocumentSet for that set.
C4_UnknownSchemaIsFatal ==
  (ResolvingSets /\ \E i \in 1..Len(config.queries) : DanglingSet(config.queries[i])) =>
    /\ pc # "done"
    /\ \A i \in 1..Len(resolved) : ~DanglingSet(resolved[i].originalSet)

SchemaCollaborators ==
  {"loadSchema", "loadQueryDocuments", "buildASTSchema", "extendSchema",
   "buildClientSchema"}

\* C5: resolveDocumentSets with needSchema = false invokes none of loadSchema,
\* loadQueryDocuments, buildASTSchema, extendSchema, buildClientSchema, and
\* every set it returns has no schema object.
C5_NoSchemaWorkUnlessNeeded ==
  (ResolvingSets /\ ~op.needSchema) =>
    /\ \A i \in 1..Len(calls) : calls[i].fn \notin SchemaCollaborators
    /\ \A i \in 1..Len(resolved) : resolved[i].schema = NoSchema
    /\ \A i \in 1..Len(tasks) :
         tasks[i].result # <<>> => tasks[i].result[1].schema = NoSchema

\* A needSchema = false call returned a set whose document set names a schema
\* that exists.
C5_Witness ==
  /\ ResolvingSets /\ ~op.needSchema /\ pc = "done"
  /\ \E i \in 1..Len(resolved) :
       /\ Truthy(resolved[i].originalSet.schema)
       /\ HasKey(config.schemas, resolved[i].originalSet.schema)
       /\ resolved[i].documentPaths # <<>>

\* C6: with ENGINE_API_KEY set, every schema dependency of the config that
\* loadConfig returns has that value as its engineKey.
C6_EnvKeyInEveryDependency ==
  (origin = "loadConfig" /\ Truthy(env)) =>
    \A i \in 1..Len(config.schemas) : config.schemas[i].val.engineKey = env

\* The raw `queries` supplies no document sets: absent, or present but empty.
NoDocumentSets(queries) ==
  \/ queries.t = "undefined"
  \/ queries.t = "string" /\ StrOf(queries) = <<>>
  \/ queries.t = "array" /\ queries.v = <<>>

ImplicitDocumentSet(key) ==
  [schema |-> key,
   includes |-> JSArray(<< <<"**">> >>),
   excludes |-> JSArray(<< <<"node_modules", "/", "**">> >>)]

\* C7 as stated: a raw input without document sets (queries absent, or present
\* but empty) and exactly one schema K gives exactly the implicit set of K.
C7_Original ==
  (origin = "loadConfig" /\ NoDocumentSets(obj.queries) /\ Len(config.schemas) = 1) =>
    config.queries = <<ImplicitDocumentSet(config.schemas[1].key)>>

\* The raw `queries` is absent or falsy: undefined or the empty string.
QueriesFalsy(queries) ==
  \/ queries.t = "undefined"
  \/ queries.t = "string" /\ StrOf(queries) = <<>>

\* C7 amended: a raw `queries` that is absent or the empty string, with exactly
\* one schema K, gives exactly the implicit set of K; a returned config with
\* one schema and no document set comes only from an empty `queries` array.
C7_ImplicitSetWhenQueriesFalsy ==
  origin = "loadConfig" /\ Len(config.schemas) = 1 =>
    /\ QueriesFalsy(obj.queries) =>
         config.queries = <<ImplicitDocumentSet(config.schemas[1].key)>>
    /\ config.queries = <<>> => (obj.queries.t = "array" /\ obj.queries.v = <<>>)

\* loadConfig synthesized the set of the single schema of a raw input that has
\* no `queries` field.
C7_Witness ==
  /\ origin = "loadConfig"
  /\ obj.queries.t = "undefined"
  /\ Len(config.schemas) = 1
  /\ Len(config.queries) = 1
  /\ config.queries[1].schema = config.schemas[1].key

\* C8: a raw `queries` that is a (non-empty) string s gives exactly one set,
\* with includes = [s], the default excludes and no schema.
C8_StringBecomesIncludes ==
  (origin = "loadConfig" /\ obj.queries.t = "string" /\ StrOf(obj.queries) # <<>>) =>
    config.queries =
      <<[schema |-> Undefined,
         includes |-> JSArray(<<StrOf(obj.queries)>>),
         excludes |-> JSArray(<< <<"node_modules", "/", "**">> >>)]>>

\* name extends a, a extends b, and b is a dependency without `extends`.
IsChain3(schemas, name) ==
  LET a == ExtendsOf(schemas, name)
      b == ExtendsOf(schemas, a)
  IN /\ HasKey(schemas, name)
     /\ a # Undefined /\ HasKey(schemas, a)
     /\ b # Undefined /\ HasKey(schemas, b)
     /\ ~Truthy(Lookup(schemas, b)[1].extends)

\* The document of a dependency's schema file, marked client-only for a
\* clientSide dependency.
AstOf(dep) == [file |-> dep.schema, client |-> dep.clientSide = "true"]

\* The terminal schema of dependency b: built from its document when it is
\* clientSide, else from the introspection result fetched for it with `tag`.
TerminalSchema(b, dep, tag) ==
  IF dep.clientSide = "true"
  THEN buildASTSchema(AstOf(dep))
  ELSE buildClientSchema([tag |-> tag, of |-> b])

\* The schema of leaf extends a extends b: b's terminal schema, extended by
\* a's document, then by the leaf's.
ChainSchema(schemas, leaf, tag) ==
  LET a == ExtendsOf(schemas, leaf)
      b == ExtendsOf(schemas, a)
  IN extendSchema(
       extendSchema(TerminalSchema(b, Lookup(schemas, b)[1], tag),
                    AstOf(Lookup(schemas, a)[1])),
       AstOf(Lookup(schemas, leaf)[1]))

\* The dependencies the collaborators were invoked for, in order.
CallTargets == [i \in 1..Len(calls) |-> calls[i].of]

ChainOrder(schemas, leaf) ==
  LET a == ExtendsOf(schemas, leaf)
      b == ExtendsOf(schemas, a)
  IN <<b, b, a, a, leaf, leaf>>

\* C9 as stated: for leaf extends A extends B, resolveSchema(leaf) returns B's
\* terminal schema extended by A's document and then by the leaf's, in this
\* order, and the caller's tag is what every recursive call and the
\* introspection fetch receive.
C9_Original ==
  (ResolvingSchema /\ IsChain3(config.schemas, op.name)) =>
    /\ \A i \in 1..Len(Activations) : Activations[i].tag = op.tag
    /\ \A i \in 1..Len(calls) : calls[i].fn = "loadSchema" => calls[i].tag = op.tag
    /\ pc = "done" =>
         /\ val = ChainSchema(config.schemas, op.name, op.tag)
         /\ CallTargets = ChainOrder(config.schemas, op.name)

\* The tag a callee receives: the caller's, except that an empty string
\* arrives as no tag.
TagReceived == IF op.tag = <<>> THEN Undefined ELSE op.tag

\* C9 amended: the same composition and order; a non-empty tag reaches every
\* recursive call and the introspection fetch unchanged, an empty-string tag
\* reaches them as no tag.
C9_ChainComposition ==
  (ResolvingSchema /\ IsChain3(config.schemas, op.name)) =>
    /\ \A i \in 2..Len(Activations) : Activations[i].tag = TagReceived
    /\ \A i \in 1..Len(calls) : calls[i].fn = "loadSchema" => calls[i].tag = TagReceived
    /\ pc = "done" =>
         /\ val = ChainSchema(config.schemas, op.name, TagReceived)
         /\ CallTargets = ChainOrder(config.schemas, op.name)

\* resolveSchema returned for a three-link chain whose terminal schema was
\* fetched by introspection with the tag "prod".
C9_Witness ==
  /\ ResolvingSchema /\ pc = "done"
  /\ IsChain3(config.schemas, op.name)
  /\ op.tag = <<"prod">>
  /\ val # NoSchema
  /\ val[1].built = "buildClientSchema"
  /\ val[1].tag = <<"prod">>
  /\ Len(val[1].exts) = 2

\* A base dependency was produced before the clientSchema entry.
BaseProduced == JSTruthy(obj.services) \/ defaultSchema

\* C10: in a config that loadConfig returns no dependency lies on an `extends`
\* cycle, and a clientSchema given together with a base schema leaves the base
\* in schemas, as the target of the client entry's `extends`.
C10_ExtendsAcyclic ==
  origin = "loadConfig" =>
    /\ \A i \in 1..Len(config.schemas) :
         ~OnCycle(config.schemas, config.schemas[i].key)
    /\ (Truthy(obj.clientSchema) /\ BaseProduced) =>
         \E i \in 1..Len(config.schemas) :
           /\ config.schemas[i].val.clientSide # "true"
           /\ ExtendsOf(config.schemas, DefaultName) = config.schemas[i].key

====
